---- MODULE Spec2Model ----
(***************************************************************************)
(* A model of the near-Earth-object close-approach explorer: the helpers   *)
(* (helpers.py), the record models (models.py), the loaders (extract.py),  *)
(* the filters, the filter factory and limit (filters.py), and the         *)
(* database's linking and query, which the other modules are written       *)
(* against.                                                                *)
(*                                                                         *)
(* Python values are tagged records.  A str is a sequence of one-character *)
(* strings.  A float is a fixed-point number counted in tenths, or the     *)
(* not-a-number value, which no comparison accepts.  A call that may raise *)
(* yields Return(value) or Raise(exception name).                          *)
(***************************************************************************)
EXTENDS Integers, Sequences, FiniteSets, TLC

VARIABLES
    \* the database and one query over it
    neos, approaches, criteria, filters, qpos, results, qpc,
    \* one filter applied to one close approach
    raw, ca, flt, outcome, fpc,
    \* one limit() generator and its producer
    iterator, n, i, pulled, out, lpc,
    \* one NearEarthObject: its CSV row, the object, its serialized mapping
    row, obj, serialized, npc,
    \* the two textual conversions of helpers.py
    dt, txt, parsed, tpc

queryVars == <<neos, approaches, criteria, filters, qpos, results, qpc>>
filterVars == <<raw, ca, flt, outcome, fpc>>
limitVars == <<iterator, n, i, pulled, out, lpc>>
neoVars == <<row, obj, serialized, npc>>
timeVars == <<dt, txt, parsed, tpc>>
vars == <<queryVars, filterVars, limitVars, neoVars, timeVars>>
\* what a step of one part leaves alone
notQuery == <<filterVars, limitVars, neoVars, timeVars>>
notFilter == <<queryVars, limitVars, neoVars, timeVars>>
notLimit == <<queryVars, filterVars, neoVars, timeVars>>
notNeo == <<queryVars, filterVars, limitVars, timeVars>>
notTime == <<queryVars, filterVars, limitVars, neoVars>>

(***************************************************************************)
(* Python values                                                           *)
(***************************************************************************)
None == [t |-> "NoneType"]
Str(s) == [t |-> "str", s |-> s]
Float(x) == [t |-> "float", nan |-> FALSE, v |-> x]
NaN == [t |-> "float", nan |-> TRUE, v |-> 0]
Bool(b) == [t |-> "bool", v |-> b]
PyInt(k) == [t |-> "int", v |-> k]
Date(y, m, d) == [t |-> "date", year |-> y, month |-> m, day |-> d]
Datetime(y, m, d, hh, mm, ss) ==
    [t |-> "datetime", year |-> y, month |-> m, day |-> d,
     hour |-> hh, minute |-> mm, second |-> ss]

Return(v) == [raised |-> "", val |-> v]
Raise(e) == [raised |-> e, val |-> None]

IsNone(x) == x.t = "NoneType"

\* bool(x): the truth value Python's `if x:` tests
Truthy(x) ==
    CASE x.t = "NoneType" -> FALSE
      [] x.t = "str" -> x.s # <<>>
      [] x.t = "float" -> x.nan \/ x.v # 0
      [] x.t = "bool" -> x.v
      [] OTHER -> TRUE

(***************************************************************************)
(* Characters                                                              *)
(***************************************************************************)
DigitChars == <<"0", "1", "2", "3", "4", "5", "6", "7", "8", "9">>
UpperChars == <<"A", "B", "C", "D", "E", "F", "G", "H", "I", "J", "K", "L", "M",
                "N", "O", "P", "Q", "R", "S", "T", "U", "V", "W", "X", "Y", "Z">>
LowerChars == <<"a", "b", "c", "d", "e", "f", "g", "h", "i", "j", "k", "l", "m",
                "n", "o", "p", "q", "r", "s", "t", "u", "v", "w", "x", "y", "z">>

IsDigit(c) == \E k \in 1..10 : DigitChars[k] = c
DigitVal(c) == (CHOOSE k \in 1..10 : DigitChars[k] = c) - 1
Digit(k) == DigitChars[k + 1]
Fold(c) ==
    IF \E k \in 1..26 : UpperChars[k] = c
    THEN LowerChars[CHOOSE k \in 1..26 : UpperChars[k] = c]
    ELSE c
FoldAll(s) == [k \in 1..Len(s) |-> Fold(s[k])]
AllDigits(s) == \A k \in 1..Len(s) : IsDigit(s[k])

RECURSIVE Number(_)
Number(s) == IF s = <<>> THEN 0
             ELSE 10 * Number(SubSeq(s, 1, Len(s) - 1)) + DigitVal(s[Len(s)])

Pad2(k) == <<Digit(k \div 10), Digit(k % 10)>>
Pad4(k) == <<Digit(k \div 1000), Digit((k \div 100) % 10)>> \o Pad2(k % 100)

\* the positions of character c in s at or after position from
Find(s, c, from) == {k \in from..Len(s) : s[k] = c}
Min(S) == CHOOSE x \in S : \A y \in S : x <= y

(***************************************************************************)
(* The calendar                                                            *)
(***************************************************************************)
MonthAbbr == << <<"J", "a", "n">>, <<"F", "e", "b">>, <<"M", "a", "r">>,
                <<"A", "p", "r">>, <<"M", "a", "y">>, <<"J", "u", "n">>,
                <<"J", "u", "l">>, <<"A", "u", "g">>, <<"S", "e", "p">>,
                <<"O", "c", "t">>, <<"N", "o", "v">>, <<"D", "e", "c">> >>
\* strptime's %b matches the abbreviation in any case
IsMonth(m, s) == FoldAll(MonthAbbr[m]) = FoldAll(s)
IsLeap(y) == (y % 4 = 0 /\ y % 100 # 0) \/ y % 400 = 0
DaysIn(y, m) ==
    IF m = 2 THEN (IF IsLeap(y) THEN 29 ELSE 28)
    ELSE IF m \in {4, 6, 9, 11} THEN 30 ELSE 31

(***************************************************************************)
(* helpers.py                                                              *)
(***************************************************************************)
\* strptime's %d: 3[0-1] | [1-2]\d | 0[1-9] | [1-9]
DayField(s) ==
    /\ Len(s) \in {1, 2} /\ AllDigits(s)
    /\ Number(s) \in 1..31
    /\ Len(s) = 1 \/ Number(s) >= 10 \/ s[1] = "0"
\* strptime's %H: 2[0-3] | [0-1]\d | \d
HourField(s) == Len(s) \in {1, 2} /\ AllDigits(s) /\ Number(s) \in 0..23
\* strptime's %M: [0-5]\d | \d
MinuteField(s) == Len(s) \in {1, 2} /\ AllDigits(s) /\ Number(s) \in 0..59

\* a parser of the format datetime_to_str writes, "%Y-%m-%d %H:%M", in
\* place of the NASA format
cd_to_datetime_Iso(calendar_date) ==
    LET s == calendar_date
    IN  IF /\ Len(s) = 16
           /\ AllDigits(SubSeq(s, 1, 4)) /\ s[5] = "-"
           /\ AllDigits(SubSeq(s, 6, 7)) /\ s[8] = "-"
           /\ AllDigits(SubSeq(s, 9, 10)) /\ s[11] = " "
           /\ AllDigits(SubSeq(s, 12, 13)) /\ s[14] = ":"
           /\ AllDigits(SubSeq(s, 15, 16))
           /\ Number(SubSeq(s, 6, 7)) \in 1..12
           /\ Number(SubSeq(s, 9, 10)) \in
                 1..DaysIn(Number(SubSeq(s, 1, 4)), Number(SubSeq(s, 6, 7)))
           /\ Number(SubSeq(s, 12, 13)) \in 0..23
           /\ Number(SubSeq(s, 15, 16)) \in 0..59
        THEN Return(Datetime(Number(SubSeq(s, 1, 4)), Number(SubSeq(s, 6, 7)),
                             Number(SubSeq(s, 9, 10)), Number(SubSeq(s, 12, 13)),
                             Number(SubSeq(s, 15, 16)), 0))
        ELSE Raise("ValueError")

\* datetime.datetime.strptime(calendar_date, "%Y-%b-%d %H:%M"): four digits,
\* "-", an English month abbreviation in any case, "-", the day, white
\* space, the hour, ":", the minute, and nothing after; then the date must
\* exist.  Anything else is a ValueError.
cd_to_datetime(calendar_date) ==
    LET s == calendar_date
        sp == Find(s, " ", 10)
        co == Find(s, ":", 10)
    IN  IF \/ Len(s) < 14
           \/ ~AllDigits(SubSeq(s, 1, 4))
           \/ s[5] # "-" \/ s[9] # "-"
           \/ ~\E m \in 1..12 : IsMonth(m, SubSeq(s, 6, 8))
           \/ sp = {} \/ co = {}
        THEN Raise("ValueError")
        ELSE LET month == CHOOSE m \in 1..12 : IsMonth(m, SubSeq(s, 6, 8))
                 year == Number(SubSeq(s, 1, 4))
                 s1 == Min(sp)
                 c1 == Min(co)
                 \* the white space after the day: \s+
                 h1 == IF \E k \in s1..Len(s) : s[k] # " "
                       THEN Min({k \in s1..Len(s) : s[k] # " "})
                       ELSE Len(s) + 1
                 dd == SubSeq(s, 10, s1 - 1)
                 hh == SubSeq(s, h1, c1 - 1)
                 mm == SubSeq(s, c1 + 1, Len(s))
             IN  IF /\ c1 > h1
                    /\ DayField(dd) /\ HourField(hh) /\ MinuteField(mm)
                    /\ year >= 1
                    /\ Number(dd) <= DaysIn(year, month)
                 THEN Return(Datetime(year, month, Number(dd), Number(hh), Number(mm), 0))
                 ELSE Raise("ValueError")

\* datetime.datetime.strftime(dt, "%Y-%m-%d %H:%M"), for the four-digit
\* years of the data set; strftime of a value that is no datetime is a
\* TypeError.
datetime_to_str(d) ==
    IF d.t # "datetime" THEN Raise("TypeError")
    ELSE Return(Str(Pad4(d.year) \o <<"-">> \o Pad2(d.month) \o <<"-">> \o Pad2(d.day)
                    \o <<" ">> \o Pad2(d.hour) \o <<":">> \o Pad2(d.minute)))

\* float(text) for the decimal texts of the data set: digits, and at most
\* one digit after a point; the value is counted in tenths.
float(value) ==
    IF value.t = "float" THEN Return(value)
    ELSE IF value.t # "str" THEN Raise("TypeError")
    ELSE LET s == value.s
             pt == Find(s, ".", 1)
         IN  IF pt = {}
             THEN IF s # <<>> /\ AllDigits(s) THEN Return(Float(10 * Number(s)))
                  ELSE Raise("ValueError")
             ELSE LET p == Min(pt)
                      whole == SubSeq(s, 1, p - 1)
                      frac == SubSeq(s, p + 1, Len(s))
                  IN  IF /\ AllDigits(whole) /\ AllDigits(frac)
                         /\ Len(whole) + Len(frac) > 0 /\ Len(frac) <= 1
                      THEN Return(Float(10 * Number(whole) + Number(frac)))
                      ELSE Raise("ValueError")

y_to_true(x) == IF x = Str(<<"Y">>) THEN Bool(TRUE) ELSE Bool(FALSE)

\* return_format(value), for the formats default_if_empty is called with;
\* "type" is type(value), which for a str, a float or a bool gives the
\* value back.
Format(return_format, value) ==
    CASE return_format = "float" -> float(value)
      [] return_format = "cd_to_datetime" ->
            IF value.t = "str" THEN cd_to_datetime(value.s) ELSE Raise("TypeError")
      [] return_format = "y_to_true" -> Return(y_to_true(value))
      [] OTHER -> Return(value)

default_if_empty(value, default_value, return_format) ==
    IF Truthy(value) THEN Format(return_format, value) ELSE Return(default_value)

(***************************************************************************)
(* models.py                                                               *)
(***************************************************************************)
Unknown == Str(<<"u", "n", "k", "n", "o", "w", "n">>)

\* a constructor that defaults an empty diameter to 0.0, as distance and
\* velocity are defaulted, in place of not-a-number
NearEarthObject_ZeroDiameter(fields) ==
    LET name == default_if_empty(fields.name, None, "type")
        diameter == default_if_empty(fields.diameter, Float(0), "float")
        hazardous == default_if_empty(fields.pha, Bool(FALSE), "y_to_true")
    IN  IF diameter.raised # "" THEN diameter
        ELSE Return([t |-> "NearEarthObject",
                     designation |-> fields.pdes,
                     name |-> name.val,
                     diameter |-> diameter.val,
                     hazardous |-> hazardous.val,
                     approaches |-> <<>>])

\* NearEarthObject.__init__(**info); approaches starts empty and holds the
\* positions of the linked close approaches in the database's collection.
NearEarthObject(fields) ==
    LET name == default_if_empty(fields.name, None, "type")
        diameter == default_if_empty(fields.diameter, NaN, "float")
        hazardous == default_if_empty(fields.pha, Bool(FALSE), "y_to_true")
    IN  IF diameter.raised # "" THEN diameter
        ELSE Return([t |-> "NearEarthObject",
                     designation |-> fields.pdes,
                     name |-> name.val,
                     diameter |-> diameter.val,
                     hazardous |-> hazardous.val,
                     approaches |-> <<>>])

\* NearEarthObject.serialize()
NeoSerialize(self) ==
    [designation |-> self.designation,
     name |-> self.name,
     diameter_km |-> default_if_empty(self.diameter, Unknown, "type").val,
     potentially_hazardous |-> self.hazardous]

\* CloseApproach.__init__(**info)
CloseApproach(fields) ==
    LET time == default_if_empty(fields.cd, None, "cd_to_datetime")
        distance == default_if_empty(fields.dist, Float(0), "float")
        velocity == default_if_empty(fields.v_rel, Float(0), "float")
    IN  IF time.raised # "" THEN time
        ELSE IF distance.raised # "" THEN distance
        ELSE IF velocity.raised # "" THEN velocity
        ELSE Return([t |-> "CloseApproach",
                     _designation |-> fields.des,
                     time |-> time.val,
                     distance |-> distance.val,
                     velocity |-> velocity.val,
                     neo |-> None])

(***************************************************************************)
(* One NearEarthObject, from its CSV row to its serialized mapping         *)
(***************************************************************************)
Designations == {Str(<<"4", "3", "3">>), Str(<<"1", "0", "3", "6">>)}
Names == {Str(<<>>), Str(<<"E", "r", "o", "s">>)}
DiameterTexts == {Str(<<>>), Str(<<"0">>), Str(<<"0", ".", "0">>), Str(<<"1", ".", "5">>),
                  Str(<<"1", "6", ".", "8">>), Str(<<"n", "/", "a">>)}
PhaTexts == {Str(<<>>), Str(<<"Y">>), Str(<<"N">>)}
NeoRows == [pdes : Designations, name : Names, diameter : DiameterTexts, pha : PhaTexts]

NeoIdle == row = None /\ obj = None /\ serialized = None /\ npc = "idle"

NeoInit ==
    /\ row \in NeoRows
    /\ obj = None /\ serialized = None /\ npc = "row"

\* obj = NearEarthObject(**row)
NewNeo ==
    /\ npc = "row"
    /\ LET r == NearEarthObject(row)
       IN  /\ obj' = r.val
           /\ npc' = IF r.raised = "" THEN "built" ELSE r.raised
    /\ UNCHANGED <<row, serialized, notNeo>>

\* serialized = obj.serialize()
Serialize ==
    /\ npc = "built"
    /\ serialized' = NeoSerialize(obj)
    /\ npc' = "serialized"
    /\ UNCHANGED <<row, obj, notNeo>>


(***************************************************************************)
(* The two textual conversions                                             *)
(***************************************************************************)
Years == {1999, 2020}
Days == {1, 9, 10, 28, 29, 30, 31}
Hours == {0, 9, 12, 23}
Minutes == {0, 5, 59}
\* the naive timestamps with zero seconds
Timestamps ==
    {Datetime(y, m, d, hh, mm, 0) :
        y \in Years, m \in 1..12, d \in Days, hh \in Hours, mm \in Minutes}
ValidTimestamps == {x \in Timestamps : x.day <= DaysIn(x.year, x.month)}

\* the cd field of NASA's close approach data for a timestamp
NasaText(x) ==
    Str(Pad4(x.year) \o <<"-">> \o MonthAbbr[x.month] \o <<"-">> \o Pad2(x.day)
        \o <<" ">> \o Pad2(x.hour) \o <<":">> \o Pad2(x.minute))
\* the texts of the data set: the timestamps as NASA writes them
NasaTimestamps == {x \in ValidTimestamps : x.hour = 12 /\ x.day \in {1, 31}}
\* texts that are no NASA calendar date: a day the month has not, an hour
\* the day has not, the month as a number; and one in another case and
\* without padding, which is one
OtherTexts ==
    {NasaText(x) : x \in {y \in Timestamps : y.day = 30 /\ y.month = 2 /\ y.hour = 0}}
    \cup {Str(<<"2", "0", "2", "0", "-", "D", "E", "C", "-", "3", "1", " ", "7", ":", "5">>),
          Str(<<"2", "0", "2", "0", "-", "D", "e", "c", "-", "3", "1", " ", "2", "4", ":", "0", "0">>),
          Str(<<"2", "0", "2", "0", "-", "1", "2", "-", "3", "1", " ", "1", "2", ":", "0", "0">>)}

TimeIdle == dt = None /\ txt = None /\ parsed = Return(None) /\ tpc = "idle"

\* a timestamp to format, or a text to parse: dt written as NASA writes it,
\* or another text (dt = None)
TimeInit ==
    /\ parsed = Return(None)
    /\ \/ dt \in ValidTimestamps /\ txt = None /\ tpc = "dt"
       \/ dt \in NasaTimestamps /\ txt = NasaText(dt) /\ tpc = "cd"
       \/ dt = None /\ txt \in OtherTexts /\ tpc = "cd"

\* txt = datetime_to_str(x), of the timestamp given or of the one just parsed
DatetimeToStr ==
    /\ tpc \in {"dt", "parsed"}
    /\ LET r == datetime_to_str(IF tpc = "dt" THEN dt ELSE parsed.val)
       IN  /\ txt' = r.val
           /\ tpc' = IF r.raised # "" THEN r.raised
                     ELSE IF tpc = "dt" THEN "str" ELSE "shown"
    /\ UNCHANGED <<dt, parsed, notTime>>

\* parsed = cd_to_datetime(txt), of the text given or of the one just formatted
CdToDatetime ==
    /\ tpc \in {"cd", "str"}
    /\ parsed' = cd_to_datetime(txt.s)
    /\ tpc' = IF tpc = "str" THEN "roundtrip"
              ELSE IF parsed'.raised = "" THEN "parsed" ELSE parsed'.raised
    /\ UNCHANGED <<dt, txt, notTime>>

(***************************************************************************)
(* filters.py: the comparators, the filters, the factory                   *)
(***************************************************************************)
\* a bool counts as the number 0 or 1, here in tenths
Num(x) == IF x.t = "bool" THEN (IF x.v THEN 10 ELSE 0) ELSE x.v
IsNumber(x) == x.t \in {"float", "bool"}
IsNaN(x) == x.t = "float" /\ x.nan
DateOrdinal(x) == (x.year * 12 + x.month) * 31 + x.day

\* operator.eq(a, b), operator.ge(a, b), operator.le(a, b): not-a-number
\* satisfies none of them; an order between a number and a date, or with
\* None, is a TypeError.
Compare(op, a, b) ==
    IF IsNumber(a) /\ IsNumber(b)
    THEN IF IsNaN(a) \/ IsNaN(b) THEN Return(Bool(FALSE))
         ELSE Return(Bool(CASE op = "eq" -> Num(a) = Num(b)
                            [] op = "ge" -> Num(a) >= Num(b)
                            [] op = "le" -> Num(a) <= Num(b)))
    ELSE IF a.t = "date" /\ b.t = "date"
    THEN Return(Bool(CASE op = "eq" -> DateOrdinal(a) = DateOrdinal(b)
                       [] op = "ge" -> DateOrdinal(a) >= DateOrdinal(b)
                       [] op = "le" -> DateOrdinal(a) <= DateOrdinal(b)))
    ELSE IF op = "eq" THEN Return(Bool(a.t = "NoneType" /\ b.t = "NoneType"))
    ELSE Raise("TypeError")

Ops == {"eq", "ge", "le"}
FilterClasses == {"AttributeFilter", "DateFilter", "DistanceFilter",
                  "VelocityFilter", "DiameterFilter", "HazardousFilter"}

\* AttributeFilter.__init__(op, value), of class cls
AttributeFilter(cls, op, value) == [cls |-> cls, op |-> op, value |-> value]

\* datetime.date()
DateOf(x) == Date(x.year, x.month, x.day)

\* the classes with VelocityFilter left without a get of its own, so that
\* it inherits AttributeFilter.get
Get_MissingOverride(cls, approach) ==
    CASE cls = "DateFilter" ->
            IF IsNone(approach.time) THEN Raise("AttributeError")
            ELSE Return(DateOf(approach.time))
      [] cls = "DistanceFilter" -> Return(approach.distance)
      [] cls = "DiameterFilter" ->
            IF IsNone(approach.neo) THEN Raise("AttributeError")
            ELSE Return(approach.neo.diameter)
      [] cls = "HazardousFilter" ->
            IF IsNone(approach.neo) THEN Raise("AttributeError")
            ELSE Return(approach.neo.hazardous)
      [] OTHER -> Raise("UnsupportedCriterionError")

\* cls.get(approach): an attribute of None is an AttributeError
Get(cls, approach) ==
    CASE cls = "DateFilter" ->
            IF IsNone(approach.time) THEN Raise("AttributeError")
            ELSE Return(DateOf(approach.time))
      [] cls = "DistanceFilter" -> Return(approach.distance)
      [] cls = "VelocityFilter" -> Return(approach.velocity)
      [] cls = "DiameterFilter" ->
            IF IsNone(approach.neo) THEN Raise("AttributeError")
            ELSE Return(approach.neo.diameter)
      [] cls = "HazardousFilter" ->
            IF IsNone(approach.neo) THEN Raise("AttributeError")
            ELSE Return(approach.neo.hazardous)
      [] OTHER -> Raise("UnsupportedCriterionError")

\* `if self.value:` in place of `if self.value != None:`
IsSet_Truthy(value) == Truthy(value)

\* self.value != None
IsSet(value) == ~IsNone(value)

\* a __call__ without the test for None
Call_Unguarded(self, approach) ==
    LET got == Get(self.cls, approach)
    IN  [accessed |-> TRUE,
         result |-> IF got.raised # "" THEN got
                    ELSE Compare(self.op, got.val, self.value)]

\* AttributeFilter.__call__(approach): what it returns or raises, and
\* whether get was evaluated
Call(self, approach) ==
    IF IsSet(self.value)
    THEN LET got == Get(self.cls, approach)
         IN  [accessed |-> TRUE,
              result |-> IF got.raised # "" THEN got
                         ELSE Compare(self.op, got.val, self.value)]
    ELSE [accessed |-> FALSE, result |-> Return(Bool(TRUE))]

\* a factory whose distance_max filter is built from distance_min
create_filters_Swapped(c) ==
    << AttributeFilter("DateFilter", "eq", c.date),
       AttributeFilter("DateFilter", "ge", c.start_date),
       AttributeFilter("DateFilter", "le", c.end_date),
       AttributeFilter("DistanceFilter", "ge", c.distance_min),
       AttributeFilter("DistanceFilter", "le", c.distance_min),
       AttributeFilter("DiameterFilter", "ge", c.diameter_min),
       AttributeFilter("DiameterFilter", "le", c.diameter_max),
       AttributeFilter("VelocityFilter", "ge", c.velocity_min),
       AttributeFilter("VelocityFilter", "le", c.velocity_max),
       AttributeFilter("HazardousFilter", "eq", c.hazardous) >>

\* create_filters(date, start_date, ..., hazardous): c holds the ten
\* arguments by name
create_filters(c) ==
    << AttributeFilter("DateFilter", "eq", c.date),
       AttributeFilter("DateFilter", "ge", c.start_date),
       AttributeFilter("DateFilter", "le", c.end_date),
       AttributeFilter("DistanceFilter", "ge", c.distance_min),
       AttributeFilter("DistanceFilter", "le", c.distance_max),
       AttributeFilter("DiameterFilter", "ge", c.diameter_min),
       AttributeFilter("DiameterFilter", "le", c.diameter_max),
       AttributeFilter("VelocityFilter", "ge", c.velocity_min),
       AttributeFilter("VelocityFilter", "le", c.velocity_max),
       AttributeFilter("HazardousFilter", "eq", c.hazardous) >>

(***************************************************************************)
(* extract.py and the database                                             *)
(***************************************************************************)
\* load_neos, load_approaches: one object per row, in the rows' order
load_neos(rows) == [k \in 1..Len(rows) |-> NearEarthObject(rows[k]).val]
load_approaches(rows) == [k \in 1..Len(rows) |-> CloseApproach(rows[k]).val]

Max(set) == CHOOSE x \in set : \A y \in set : x >= y
RECURSIVE Positions(_, _)
\* the positions of set in increasing order, as a sequence
Positions(set, upto) ==
    IF upto = 0 THEN <<>>
    ELSE Positions(set, upto - 1) \o (IF upto \in set THEN <<upto>> ELSE <<>>)

\* NEODatabase(neos, approaches): every close approach whose designation is
\* some NEO's gets that NEO as its neo and is added to the NEO's approaches;
\* one whose designation is no NEO's keeps neo = None.  An approach's neo is
\* held as the NEO's attributes.
NEODatabase(ns, cas) ==
    LET Of(a) == {k \in 1..Len(ns) : ns[k].designation = a._designation}
        Link(a) == IF Of(a) = {} THEN a ELSE [a EXCEPT !.neo = ns[Max(Of(a))]]
        Mine(k) == {j \in 1..Len(cas) : Of(cas[j]) # {} /\ Max(Of(cas[j])) = k}
    IN  [neos |-> [k \in 1..Len(ns) |->
                     [ns[k] EXCEPT !.approaches = Positions(Mine(k), Len(cas))]],
         approaches |-> [j \in 1..Len(cas) |-> Link(cas[j])]]

(***************************************************************************)
(* One filter applied to one close approach                                *)
(***************************************************************************)
Eros == Str(<<"E", "r", "o", "s">>)
D433 == Str(<<"4", "3", "3">>)
D1036 == Str(<<"1", "0", "3", "6">>)
D9999 == Str(<<"9", "9", "9", "9">>)
Jan(day) == Datetime(2020, 1, day, 12, 0, 0)

FilterNeoRows ==
    [pdes : {D433}, name : {Eros},
     diameter : {Str(<<>>), Str(<<"0", ".", "0">>), Str(<<"1", ".", "5">>)},
     pha : PhaTexts]
FilterApproachRows ==
    [des : {D433},
     cd : {Str(<<>>), NasaText(Jan(1)), NasaText(Jan(2))},
     dist : {Str(<<>>), Str(<<"0", ".", "3">>), Str(<<"1", ".", "0">>)},
     v_rel : {Str(<<>>), Str(<<"5", ".", "5">>)}]
\* the reference values a filter of each class is built with
ValuesOf(cls) ==
    CASE cls = "DateFilter" -> {None, Date(2020, 1, 1), Date(2020, 1, 2)}
      [] cls = "DistanceFilter" -> {None, Float(0), Float(3), Float(5)}
      [] cls = "VelocityFilter" -> {None, Float(0), Float(55)}
      [] cls = "DiameterFilter" -> {None, Float(0), Float(10), Float(15)}
      [] cls = "HazardousFilter" -> {None, Bool(TRUE), Bool(FALSE)}
      [] OTHER -> {None, Float(0)}

FilterIdle == raw = None /\ ca = None /\ flt = None /\ outcome = None /\ fpc = "idle"

\* a database of one close approach and of one NEO or none
FilterInit ==
    /\ \E a \in FilterApproachRows :
         \/ /\ raw = [approach |-> a, neo |-> None]
            /\ ca = NEODatabase(<<>>, load_approaches(<<a>>)).approaches[1]
         \/ \E r \in FilterNeoRows :
              /\ raw = [approach |-> a, neo |-> r]
              /\ ca = NEODatabase(load_neos(<<r>>), load_approaches(<<a>>)).approaches[1]
    /\ flt = None /\ outcome = None /\ fpc = "approach"

\* flt = cls(op, value)
NewFilter ==
    /\ fpc = "approach"
    /\ \E cls \in FilterClasses, op \in Ops :
         \E value \in ValuesOf(cls) : flt' = AttributeFilter(cls, op, value)
    /\ fpc' = "filter"
    /\ UNCHANGED <<raw, ca, outcome, notFilter>>

\* flt(ca)
CallFilter ==
    /\ fpc = "filter"
    /\ outcome' = Call(flt, ca)
    /\ fpc' = "called"
    /\ UNCHANGED <<raw, ca, flt, notFilter>>


(***************************************************************************)
(* The database, the filter factory and one query                          *)
(***************************************************************************)
MaxApproaches == 2

\* the NEO data set
QueryNeoRows ==
    << [pdes |-> D433, name |-> Eros, diameter |-> Str(<<"1", "6", ".", "8">>),
        pha |-> Str(<<"N">>)],
       [pdes |-> D1036, name |-> Str(<<>>), diameter |-> Str(<<>>),
        pha |-> Str(<<"Y">>)] >>
\* the rows the close approach data set is made of: of either NEO and of
\* none, with and without a time, a distance and a velocity
QueryApproachRows ==
    { [des |-> D433, cd |-> NasaText(Jan(2)), dist |-> Str(<<"0", ".", "3">>),
       v_rel |-> Str(<<"5", ".", "5">>)],
      [des |-> D433, cd |-> NasaText(Jan(1)), dist |-> Str(<<"1", ".", "0">>),
       v_rel |-> Str(<<>>)],
      [des |-> D1036, cd |-> NasaText(Jan(2)), dist |-> Str(<<"0", ".", "3">>),
       v_rel |-> Str(<<"5", ".", "5">>)],
      [des |-> D433, cd |-> Str(<<>>), dist |-> Str(<<>>),
       v_rel |-> Str(<<"5", ".", "5">>)],
      [des |-> D9999, cd |-> NasaText(Jan(2)), dist |-> Str(<<"0", ".", "3">>),
       v_rel |-> Str(<<"5", ".", "5">>)] }
RowSeqs(len) == UNION {[1..k -> QueryApproachRows] : k \in 0..len}

\* what the command line may supply for each criterion
Criteria ==
    [date : {None, Date(2020, 1, 2)},
     start_date : {None, Date(2020, 1, 1)},
     end_date : {None, Date(2020, 1, 3)},
     distance_min : {None, Float(3)},
     distance_max : {None, Float(10)},
     velocity_min : {None, Float(0)},
     velocity_max : {None, Float(55)},
     diameter_min : {None, Float(15)},
     diameter_max : {None, Float(200)},
     hazardous : {None, Bool(TRUE), Bool(FALSE)}]

RECURSIVE AllPass(_, _, _)
\* all(f(approach) for f in filters), from filter k on: the first filter
\* that returns false ends it, and so does the first that raises
AllPass(fs, approach, k) ==
    IF k > Len(fs) THEN Return(Bool(TRUE))
    ELSE LET r == Call(fs[k], approach).result
         IN  IF r.raised # "" THEN r
             ELSE IF ~Truthy(r.val) THEN Return(Bool(FALSE))
             ELSE AllPass(fs, approach, k + 1)

QueryIdle ==
    /\ neos = <<>> /\ approaches = <<>> /\ criteria = None /\ filters = <<>>
    /\ qpos = 0 /\ results = <<>> /\ qpc = "idle"

\* the database as built from the two data sets
QueryInit ==
    /\ \E rows \in RowSeqs(MaxApproaches) :
         LET db == NEODatabase(load_neos(QueryNeoRows), load_approaches(rows))
         IN  neos = db.neos /\ approaches = db.approaches
    /\ criteria = None /\ filters = <<>>
    /\ qpos = 0 /\ results = <<>> /\ qpc = "built"

\* filters = create_filters(**criteria)
CreateFilters ==
    /\ qpc = "built"
    /\ \E c \in Criteria : criteria' = c /\ filters' = create_filters(c)
    /\ qpc' = "filters"
    /\ UNCHANGED <<neos, approaches, qpos, results, notQuery>>

\* one turn of the loop of query(filters), the consumer asking for the next
\* result: the next close approach is yielded (its position joins results),
\* passed over, or a filter raises and the query ends with that exception
QueryStep ==
    /\ qpc = "filters"
    /\ qpos < Len(approaches)
    /\ LET r == AllPass(filters, approaches[qpos + 1], 1)
       IN  /\ qpc' = IF r.raised # "" THEN r.raised ELSE qpc
           /\ results' = IF r.raised = "" /\ Truthy(r.val)
                         THEN Append(results, qpos + 1) ELSE results
    /\ qpos' = qpos + 1
    /\ UNCHANGED <<neos, approaches, criteria, filters, notQuery>>

\* the collection is exhausted: the query ends
QueryEnd ==
    /\ qpc = "filters"
    /\ qpos = Len(approaches)
    /\ qpc' = "done"
    /\ UNCHANGED <<neos, approaches, criteria, filters, qpos, results, notQuery>>


(***************************************************************************)
(* One filter of the factory applied to one close approach                 *)
(***************************************************************************)
\* flt = create_filters(**criteria)[k], any of the ten
NewFactoryFilter ==
    /\ fpc = "approach"
    /\ \E c \in Criteria : \E k \in 1..Len(create_filters(c)) :
         flt' = create_filters(c)[k]
    /\ fpc' = "factory"
    /\ UNCHANGED <<raw, ca, outcome, notFilter>>

\* flt(ca), of a filter of the factory
CallFactoryFilter ==
    /\ fpc = "factory"
    /\ outcome' = Call(flt, ca)
    /\ fpc' = "factory called"
    /\ UNCHANGED <<raw, ca, flt, notFilter>>

(***************************************************************************)
(* limit                                                                   *)
(***************************************************************************)
MaxLen == 3
MaxN == 3
MaxPull == 5

\* next(iterator) after pulls elements were taken: a producer of the items
\* of a list, or an endless one (its k-th element is k), which raises when
\* asked for element failat
NextOf(it, pulls) ==
    IF it.failat = pulls + 1 THEN Raise("RuntimeError")
    ELSE IF it.endless THEN Return(PyInt(pulls + 1))
    ELSE IF pulls < Len(it.items) THEN Return(it.items[pulls + 1])
    ELSE Raise("StopIteration")

\* n == None or n == 0
Unlimited(k) == IsNone(k) \/ k.v = 0
\* i < n in place of i <= n
Within_Strict(count, k) == count < k.v

\* i <= n
Within(count, k) == count <= k.v

Items == {PyInt(1), PyInt(2)}
Iterators ==
    [items : UNION {[1..k -> Items] : k \in 0..MaxLen}, endless : {FALSE},
     failat : 0..(MaxLen + 1)]
    \cup [items : {<<>>}, endless : {TRUE}, failat : 0..(MaxN + 1)]

LimitIdle ==
    /\ iterator = None /\ n = None /\ i = 0 /\ pulled = 0 /\ out = <<>> /\ lpc = "idle"

\* limit(iterator, n) was called: nothing runs before the first next()
LimitInit ==
    /\ iterator \in Iterators
    /\ n \in {None} \cup {PyInt(k) : k \in 0..MaxN}
    /\ i = 0 /\ pulled = 0 /\ out = <<>> /\ lpc = "suspended"

\* the consumer asks limit for its next value: one turn of its loop, which
\* takes the producer's next element and yields it or returns
LimitStep ==
    /\ lpc = "suspended"
    /\ pulled < MaxPull
    /\ LET x == NextOf(iterator, pulled)
       IN  IF x.raised = "StopIteration"
           THEN /\ lpc' = "done"
                /\ UNCHANGED <<i, pulled, out>>
           ELSE IF x.raised # ""
           THEN /\ lpc' = x.raised
                /\ UNCHANGED <<i, pulled, out>>
           ELSE IF Unlimited(n)
           THEN /\ out' = Append(out, x.val)
                /\ pulled' = pulled + 1
                /\ UNCHANGED <<i, lpc>>
           ELSE /\ i' = i + 1
                /\ pulled' = pulled + 1
                /\ IF Within(i', n)
                   THEN out' = Append(out, x.val) /\ lpc' = lpc
                   ELSE out' = out /\ lpc' = "done"
    /\ UNCHANGED <<iterator, n, notLimit>>

(***************************************************************************)
(* The specifications                                                      *)
(***************************************************************************)
Init == QueryInit /\ FilterIdle /\ LimitIdle /\ NeoIdle /\ TimeIdle
Next == CreateFilters \/ QueryStep \/ QueryEnd
Spec == Init /\ [][Next]_vars

InitFilter == FilterInit /\ QueryIdle /\ LimitIdle /\ NeoIdle /\ TimeIdle
NextFilter == NewFilter \/ CallFilter \/ NewFactoryFilter \/ CallFactoryFilter
SpecFilter == InitFilter /\ [][NextFilter]_vars

InitLimit == LimitInit /\ QueryIdle /\ FilterIdle /\ NeoIdle /\ TimeIdle
NextLimit == LimitStep
SpecLimit == InitLimit /\ [][NextLimit]_vars

InitNeo == NeoInit /\ QueryIdle /\ FilterIdle /\ LimitIdle /\ TimeIdle
NextNeo == NewNeo \/ Serialize
SpecNeo == InitNeo /\ [][NextNeo]_vars

InitTime == TimeInit /\ QueryIdle /\ FilterIdle /\ LimitIdle /\ NeoIdle
NextTime == DatetimeToStr \/ CdToDatetime
SpecTime == InitTime /\ [][NextTime]_vars

(***************************************************************************)
(* Properties                                                              *)
(***************************************************************************)
Holds(op, a, b) ==
    CASE op = "eq" -> a = b
      [] op = "ge" -> a >= b
      [] op = "le" -> a <= b

QueryEnded == qpc \notin {"idle", "built", "filters"}
\* every filter returns true on the approach
EveryFilterTrue(a) ==
    \A k \in 1..Len(filters) : Call(filters[k], a).result = Return(Bool(TRUE))
Matching == {k \in 1..Len(approaches) : EveryFilterTrue(approaches[k])}

\* C1: a query that has ended has yielded exactly the close approaches on
\* which every filter of create_filters returns true, in the order of the
\* input collection (all of them when no criterion is set).
C1_QueryYieldsExactlyTheMatches ==
    QueryEnded => results = Positions(Matching, Len(approaches))

\* C2: a filter of any class built with the value None returns True on
\* every close approach, whatever its attributes, without evaluating get.
C2_UnsetFilterAlwaysPasses ==
    (fpc = "called" /\ flt.value = None) =>
        /\ outcome.result = Return(Bool(TRUE))
        /\ ~outcome.accessed
C2_Witness ==
    /\ fpc = "called" /\ flt.value = None /\ flt.cls = "DiameterFilter"
    /\ IsNone(ca.neo) /\ IsNone(ca.time)
    /\ outcome.result = Return(Bool(TRUE))

\* C3: only the value None makes a filter pass without looking: a filter
\* with any other value, 0, 0.0 and False included, evaluates get and
\* returns get(approach) OP value; so hazardous=False accepts exactly the
\* approaches of NEOs that are not hazardous, hazardous=True the others,
\* and distance_max=0 rejects every distance above 0.
C3_ZeroAndFalseAreSet ==
    fpc = "called" =>
        /\ outcome.accessed <=> flt.value # None
        /\ (flt.value # None /\ flt.cls = "DistanceFilter") =>
              outcome.result = Return(Bool(Holds(flt.op, ca.distance.v, flt.value.v)))
        /\ (flt.value # None /\ flt.cls = "VelocityFilter") =>
              outcome.result = Return(Bool(Holds(flt.op, ca.velocity.v, flt.value.v)))
        /\ (flt.value # None /\ flt.cls = "HazardousFilter" /\ flt.op = "eq"
              /\ ~IsNone(ca.neo)) =>
              outcome.result = Return(Bool(ca.neo.hazardous.v = flt.value.v))
C3_Witness ==
    /\ fpc = "called"
    /\ flt = AttributeFilter("HazardousFilter", "eq", Bool(FALSE))
    /\ ~IsNone(ca.neo) /\ ca.neo.hazardous = Bool(FALSE)
    /\ outcome.result = Return(Bool(TRUE))

Expected ==
    IF n = None \/ n.v = 0 THEN iterator.items
    ELSE SubSeq(iterator.items, 1,
                IF n.v < Len(iterator.items) THEN n.v ELSE Len(iterator.items))
IsPrefix(p, q) == Len(p) <= Len(q) /\ p = SubSeq(q, 1, Len(p))

\* C4: over a finite sequence, limit with n = 0 or None yields every
\* element in order, and with n = k >= 1 exactly the first min(k, len)
\* elements in order, and then stops.
C4_LimitYieldsThePrefix ==
    (~iterator.endless /\ iterator.failat = 0) =>
        /\ IsPrefix(out, Expected)
        /\ lpc = "done" => out = Expected
C4_Witness ==
    /\ lpc = "done" /\ ~iterator.endless /\ iterator.failat = 0
    /\ n = PyInt(2) /\ Len(iterator.items) = 3
    /\ out = SubSeq(iterator.items, 1, 2)

\* C5: limit with n = k >= 1 takes at most k elements from its producer,
\* so a producer that raises when asked for element k + 1 never raises.
C5_NeverPullsPastTheKth ==
    (n # None /\ n.v >= 1) =>
        /\ pulled <= n.v
        /\ iterator.failat = n.v + 1 => lpc # "RuntimeError"

\* the filter the factory is to build for each criterion
Built ==
    [date |-> <<"DateFilter", "eq">>,
     start_date |-> <<"DateFilter", "ge">>,
     end_date |-> <<"DateFilter", "le">>,
     distance_min |-> <<"DistanceFilter", "ge">>,
     distance_max |-> <<"DistanceFilter", "le">>,
     velocity_min |-> <<"VelocityFilter", "ge">>,
     velocity_max |-> <<"VelocityFilter", "le">>,
     diameter_min |-> <<"DiameterFilter", "ge">>,
     diameter_max |-> <<"DiameterFilter", "le">>,
     hazardous |-> <<"HazardousFilter", "eq">>]

\* C6: create_filters returns ten filters, one of the class and comparator
\* of each criterion, holding that criterion's value or None when it was
\* omitted.
C6_TenFiltersOnePerCriterion ==
    qpc \notin {"idle", "built"} =>
        /\ Len(filters) = 10
        /\ \A c \in DOMAIN Built :
              /\ Cardinality({k \in 1..Len(filters) :
                      <<filters[k].cls, filters[k].op>> = Built[c]}) = 1
              /\ \A k \in 1..Len(filters) :
                      <<filters[k].cls, filters[k].op>> = Built[c] =>
                          filters[k].value = criteria[c]
C6_Witness ==
    /\ qpc = "filters"
    /\ criteria.distance_min = Float(3) /\ criteria.distance_max = Float(10)
    /\ criteria.hazardous = Bool(FALSE) /\ criteria.date = None
    /\ filters[4].value = Float(3) /\ filters[5].value = Float(10)

\* C7: a NEO built from a row with an empty diameter has the diameter
\* not-a-number, and every DiameterFilter with a value, >= or <=, returns
\* False on an approach linked to it.
C7_UnknownDiameterNeverMatches ==
    (fpc # "idle" /\ raw.neo # None /\ raw.neo.diameter = Str(<<>>)) =>
        /\ ~IsNone(ca.neo) /\ IsNaN(ca.neo.diameter)
        /\ (fpc = "called" /\ flt.cls = "DiameterFilter" /\ flt.value # None) =>
              outcome.result = Return(Bool(FALSE))
C7_Witness ==
    /\ fpc = "called" /\ raw.neo # None /\ raw.neo.diameter = Str(<<>>)
    /\ flt = AttributeFilter("DiameterFilter", "ge", Float(10))
    /\ outcome.result = Return(Bool(FALSE))

\* C8: a DiameterFilter or HazardousFilter with a value, called on a close
\* approach whose neo is None, raises nothing and does not accept it.
C8_UnlinkedApproachSkippedSilently ==
    (fpc = "called" /\ IsNone(ca.neo) /\ flt.value # None
        /\ flt.cls \in {"DiameterFilter", "HazardousFilter"}) =>
        outcome.result = Return(Bool(FALSE))

\* C9: the serialized diameter is the text "unknown" exactly when the
\* NEO's diameter is not-a-number and the number itself otherwise, 0.0
\* included, beside the designation, the name or None and the hazardous
\* flag.
C9_SerializedDiameterUnknownOrNumber ==
    npc = "serialized" =>
        /\ serialized.diameter_km = Unknown <=> IsNaN(obj.diameter)
        /\ ~IsNaN(obj.diameter) => serialized.diameter_km = obj.diameter
        /\ serialized.designation = obj.designation
        /\ serialized.name = obj.name
        /\ serialized.potentially_hazardous = obj.hazardous

\* C10 as stated: cd_to_datetime(datetime_to_str(t)) succeeds and is t.
C10_RoundTripAsStated ==
    tpc = "roundtrip" => parsed = Return(dt)
\* C10 as amended: cd_to_datetime(datetime_to_str(t)) raises ValueError for
\* every timestamp t with zero seconds, the month being written as a
\* number where an abbreviation is read; it is t written as NASA writes it
\* that cd_to_datetime takes back to t.
C10_FormatThenParseFails ==
    /\ tpc = "roundtrip" => parsed.raised = "ValueError"
    /\ (tpc \notin {"idle", "dt", "str", "roundtrip", "cd"} /\ dt # None) =>
          parsed = Return(dt)
C10_Witness ==
    /\ tpc = "roundtrip" /\ dt = Datetime(2020, 12, 31, 12, 0, 0)
    /\ txt = Str(<<"2", "0", "2", "0", "-", "1", "2", "-", "3", "1", " ",
                   "1", "2", ":", "0", "0">>)
    /\ parsed.raised = "ValueError"

\* C11: a filter of a class that does not override get, called with a
\* value other than None, raises UnsupportedCriterionError, and the call
\* hands it to its caller; none of the ten filters of create_filters,
\* whatever the criteria and the close approach, raises it.
C11_UnsupportedOnlyWithoutOverride ==
    /\ (fpc = "called" /\ flt.cls = "AttributeFilter" /\ flt.value # None) =>
          outcome.result = Raise("UnsupportedCriterionError")
    /\ fpc = "factory called" =>
          outcome.result.raised # "UnsupportedCriterionError"
C11_Witness ==
    /\ fpc = "called"
    /\ flt = AttributeFilter("AttributeFilter", "eq", Float(0))
    /\ outcome.accessed
    /\ outcome.result = Raise("UnsupportedCriterionError")
\* a filter of the factory with a value, called on an approach of a NEO
C11_FactoryWitness ==
    /\ fpc = "factory called"
    /\ flt = AttributeFilter("VelocityFilter", "ge", Float(0))
    /\ outcome.accessed /\ outcome.result = Return(Bool(TRUE))

====
